---- MODULE Spec2Model ----
(***************************************************************************)
(* A model of the bouga "ops" seeding command (seed_ops.py) and of the     *)
(* entity declarations it writes to (models.py).                           *)
(*                                                                         *)
(* Text is a sequence of one-character strings.  Money is an integer       *)
(* number of thousandths; a DecimalField(decimal_places=2) column holds a  *)
(* multiple of 10.  A table is a sequence of rows, a row's id being its    *)
(* position; a foreign key holds the id of the row it refers to and 0      *)
(* for NULL.                                                               *)
(***************************************************************************)
EXTENDS Integers, Sequences, FiniteSets, TLC

VARIABLES db, before, data, pc, idx, cur, runs, rerun, outcome

vars == <<db, before, data, pc, idx, cur, runs, rerun, outcome>>

(***************************************************************************)
(* Bounds of the model.                                                    *)
(***************************************************************************)
MaxRuns == 2

MaxRows == 2

MaxItems == 2

MaxLen == 2

(***************************************************************************)
(* Python text operations used by the two build_sku_code functions.        *)
(***************************************************************************)
LowerLetters == <<"a","b","c","d","e","f","g","h","i","j","k","l","m",
                  "n","o","p","q","r","s","t","u","v","w","x","y","z">>

UpperLetters == <<"A","B","C","D","E","F","G","H","I","J","K","L","M",
                  "N","O","P","Q","R","S","T","U","V","W","X","Y","Z">>

Digits == {"0","1","2","3","4","5","6","7","8","9"}

Whitespace == {" ", "\t"}

Range(s) == {s[k] : k \in 1..Len(s)}

IndexOf(s, c) == CHOOSE k \in 1..Len(s) : s[k] = c

\* str.upper() on one character
UpperChar(c) == IF c \in Range(LowerLetters)
                THEN UpperLetters[IndexOf(LowerLetters, c)] ELSE c

\* str.lower() on one character
LowerChar(c) == IF c \in Range(UpperLetters)
                THEN LowerLetters[IndexOf(UpperLetters, c)] ELSE c

upper(s) == [k \in 1..Len(s) |-> UpperChar(s[k])]

lower(s) == [k \in 1..Len(s) |-> LowerChar(s[k])]

\* str.strip(chars): drop the leading and trailing characters that are in chars
StripChars(s, chars) ==
    LET keep == {k \in 1..Len(s) : s[k] \notin chars}
        lo == CHOOSE k \in keep : \A m \in keep : k <= m
        hi == CHOOSE k \in keep : \A m \in keep : k >= m
    IN  IF keep = {} THEN <<>> ELSE SubSeq(s, lo, hi)

\* str.strip()
strip(s) == StripChars(s, Whitespace)

\* str.replace(c, "")
Remove(s, c) == SelectSeq(s, LAMBDA x : x # c)

\* s[:n]
Take(s, n) == SubSeq(s, 1, IF Len(s) < n THEN Len(s) ELSE n)

IsAlnum(c) == c \in Range(LowerLetters) \cup Range(UpperLetters) \cup Digits

\* django.utils.text.slugify on ASCII text: lower-case, drop what is not a
\* word character, whitespace or hyphen, turn each run of whitespace and
\* hyphens into one hyphen, strip hyphens and underscores from both ends.
RECURSIVE Collapse(_)
Collapse(s) ==
    IF Len(s) = 0 THEN <<>>
    ELSE IF s[1] \in Whitespace \cup {"-"}
         THEN IF Len(s) > 1 /\ s[2] \in Whitespace \cup {"-"}
              THEN Collapse(Tail(s))
              ELSE <<"-">> \o Collapse(Tail(s))
         ELSE <<s[1]>> \o Collapse(Tail(s))

slugify(s) ==
    LET kept == SelectSeq(lower(s),
                  LAMBDA c : IsAlnum(c) \/ c = "_" \/ c \in Whitespace \/ c = "-")
    IN  StripChars(Collapse(kept), {"-", "_"})

BagPrefix == <<"B","A","G">>

Plain == <<"P","L","A","I","N">>

FabricCodeLen == 10

PrintCodeLen == 12

\* seed_ops.build_sku_code, on the code of the size and the names of the
\* fabric and of the pattern (<<>> and hasPattern = FALSE for no pattern)
build_sku_code(size_code, fabric_name, hasPattern, pattern_name) ==
    LET fabric_code == Take(Remove(upper(strip(fabric_name)), " "), FabricCodeLen)
        print_code == IF ~hasPattern THEN Plain
                      ELSE Take(Remove(upper(strip(pattern_name)), " "), PrintCodeLen)
    IN  BagPrefix \o <<"-">> \o upper(size_code) \o <<"-">> \o fabric_code
          \o <<"-">> \o print_code

\* models.build_sku_code
models_build_sku_code(size_code, fabric_name, hasPattern, pattern_name) ==
    LET fabric_code == Take(Remove(upper(slugify(fabric_name)), "-"), FabricCodeLen)
        print_code == IF ~hasPattern THEN Plain
                      ELSE Take(Remove(upper(slugify(pattern_name)), "-"), PrintCodeLen)
    IN  BagPrefix \o <<"-">> \o upper(size_code) \o <<"-">> \o fabric_code
          \o <<"-">> \o print_code

(***************************************************************************)
(* Money.                                                                  *)
(***************************************************************************)
\* What a DecimalField(max_digits=12, decimal_places=2) column stores of a
\* Decimal: the value rounded to two places, halves to the even cent.  (How
\* an exact half is rounded depends on the database; no value of the
\* fixtures below lands on one.)  Values are integers, in thousandths.
Quantize(v) ==
    LET q == v \div 10
        r == v % 10
    IN  IF r < 5 THEN 10 * q
        ELSE IF r > 5 THEN 10 * (q + 1)
        ELSE IF q % 2 = 0 THEN 10 * q ELSE 10 * (q + 1)

(***************************************************************************)
(* Fixture values.  A field a record may leave out is [given, v]; a        *)
(* number is [given, ok, v], ok = FALSE standing for text that Decimal()   *)
(* or int() rejects.                                                       *)
(***************************************************************************)
Some(v) == [given |-> TRUE, v |-> v]

NoText == [given |-> FALSE, v |-> <<>>]

NoFlag == [given |-> FALSE, v |-> FALSE]

Num(v) == [given |-> TRUE, ok |-> TRUE, v |-> v]

NoNum == [given |-> FALSE, ok |-> TRUE, v |-> 0]

BadNum == [given |-> TRUE, ok |-> FALSE, v |-> 0]

\* dict.get(key, default)
GetOr(opt, default) == IF opt.given THEN opt.v ELSE default

(***************************************************************************)
(* The store and the ORM calls the seeder makes.                           *)
(***************************************************************************)
Null == 0

EmptyStore ==
    [sizes |-> <<>>, fabrics |-> <<>>, patterns |-> <<>>, locations |-> <<>>,
     statuses |-> <<>>, customers |-> <<>>, expenseTypes |-> <<>>,
     skus |-> <<>>, balances |-> <<>>, materials |-> <<>>, fabricInv |-> <<>>,
     orders |-> <<>>, items |-> <<>>, expenses |-> <<>>]

\* QuerySet.filter(**key): the ids of the rows that agree with key on each
\* of its fields
Matching(tbl, key) ==
    {k \in 1..Len(tbl) : \A f \in DOMAIN key : tbl[k][f] = key[f]}

TheOne(S) == CHOOSE k \in S : TRUE

\* QuerySet.first() of a model with no ordering: the match with the lowest id
First(S) == CHOOSE k \in S : \A m \in S : k <= m

\* Model.objects.get(**key): fails unless exactly one row matches
Get(tbl, key) ==
    LET ids == Matching(tbl, key)
    IN  IF Cardinality(ids) = 1 THEN [ok |-> TRUE, id |-> TheOne(ids)]
        ELSE [ok |-> FALSE, id |-> Null]

\* defaults={}
NoDefaults == <<>>

\* a row with the fields of defaults set to their values
WithFields(row, defaults) ==
    [f \in DOMAIN row \cup DOMAIN defaults |->
        IF f \in DOMAIN defaults THEN defaults[f] ELSE row[f]]

\* Model.objects.update_or_create(**key, defaults=defaults): the matching row
\* with the defaults written, or a new row of key and defaults; fails when
\* several rows match
UpdateOrCreate(tbl, key, defaults) ==
    LET ids == Matching(tbl, key)
    IN  IF ids = {}
        THEN [ok |-> TRUE, tbl |-> Append(tbl, WithFields(key, defaults)),
              id |-> Len(tbl) + 1]
        ELSE IF Cardinality(ids) = 1
        THEN [ok |-> TRUE,
              tbl |-> [tbl EXCEPT ![TheOne(ids)] = WithFields(@, defaults)],
              id |-> TheOne(ids)]
        ELSE [ok |-> FALSE, tbl |-> tbl, id |-> Null]

\* Model.objects.get_or_create(**key, defaults=defaults): the matching row as
\* it is, or a new row of key and defaults
GetOrCreate(tbl, key, defaults) ==
    LET ids == Matching(tbl, key)
    IN  IF ids = {}
        THEN [ok |-> TRUE, tbl |-> Append(tbl, WithFields(key, defaults)),
              id |-> Len(tbl) + 1]
        ELSE IF Cardinality(ids) = 1
        THEN [ok |-> TRUE, tbl |-> tbl, id |-> TheOne(ids)]
        ELSE [ok |-> FALSE, tbl |-> tbl, id |-> Null]

\* the outcome of one step of a run: the store it leaves, or a failure
Ok(d) == [ok |-> TRUE, db |-> d]

Failed(d) == [ok |-> FALSE, db |-> d]

(***************************************************************************)
(* Command helpers.                                                        *)
(***************************************************************************)
_get_size(d, code) == Get(d.sizes, [code |-> code])

_get_fabric(d, name) == Get(d.fabrics, [name |-> name])

\* name is [given, v]: a record without print_pattern resolves to NULL
_get_print(d, name) ==
    IF ~name.given THEN [ok |-> TRUE, id |-> Null]
    ELSE Get(d.patterns, [name |-> name.v])

_get_location(d, name) == Get(d.locations, [name |-> name])

\* the code seed_ops.build_sku_code derives for the rows a SKU refers to
SeedCodeOf(d, size, fabric, pattern) ==
    build_sku_code(d.sizes[size].code, d.fabrics[fabric].name, pattern # Null,
                   IF pattern = Null THEN <<>> ELSE d.patterns[pattern].name)

\* the code models.build_sku_code derives for the rows a SKU refers to
ModelCodeOf(d, size, fabric, pattern) ==
    models_build_sku_code(d.sizes[size].code, d.fabrics[fabric].name, pattern # Null,
                   IF pattern = Null THEN <<>> ELSE d.patterns[pattern].name)

\* a resolver that takes every code for blank and derives it again
AlwaysRecode(code) == TRUE

\* "if not sku.sku_code": the code is blank
NoCode(code) == code = <<>>

\* ProductSKU.save: a blank code is derived before the row is written
ProductSKU_save(d, obj) ==
    IF NoCode(obj.sku_code)
    THEN [obj EXCEPT !.sku_code = ModelCodeOf(d, obj.size, obj.fabric_type, obj.print_pattern)]
    ELSE obj

\* unique=True on sku_code: no other row holds the code
CodeFree(d, code, self) ==
    \A k \in 1..Len(d.skus) : k # self => d.skus[k].sku_code # code

\* Command._get_sku: [ok, db, sku]
_get_sku(d, size_code, fabric_name, print_name) ==
    LET size == _get_size(d, size_code)
        fabric == _get_fabric(d, fabric_name)
        pattern == _get_print(d, print_name)
        ids == Matching(d.skus, [size |-> size.id, fabric_type |-> fabric.id,
                                 print_pattern |-> pattern.id])
        fresh == ProductSKU_save(d,
                   [sku_code |-> SeedCodeOf(d, size.id, fabric.id, pattern.id),
                    size |-> size.id, fabric_type |-> fabric.id,
                    print_pattern |-> pattern.id,
                    unit_price |-> Quantize(0), is_active |-> TRUE])
        found == TheOne(ids)
        filled == SeedCodeOf(d, size.id, fabric.id, pattern.id)
    IN  IF ~size.ok \/ ~fabric.ok \/ ~pattern.ok \/ Cardinality(ids) > 1
        THEN [ok |-> FALSE, db |-> d, sku |-> Null]
        ELSE IF ids = {}
        THEN IF CodeFree(d, fresh.sku_code, Null)
             THEN [ok |-> TRUE, db |-> [d EXCEPT !.skus = Append(@, fresh)],
                   sku |-> Len(d.skus) + 1]
             ELSE [ok |-> FALSE, db |-> d, sku |-> Null]
        ELSE IF NoCode(d.skus[found].sku_code)
        THEN IF CodeFree(d, filled, found)
             THEN [ok |-> TRUE, db |-> [d EXCEPT !.skus[found].sku_code = filled],
                   sku |-> found]
             ELSE [ok |-> FALSE, db |-> d, sku |-> Null]
        ELSE [ok |-> TRUE, db |-> d, sku |-> found]

(***************************************************************************)
(* The seed steps, one fixture record at a time.  Each takes the store and *)
(* the record and gives Ok(store') or Failed(store).                       *)
(***************************************************************************)
SeedSize(d, row) ==
    LET r == UpdateOrCreate(d.sizes, [code |-> row.code],
               [display_name |-> GetOr(row.display_name, row.code)])
    IN  IF r.ok THEN Ok([d EXCEPT !.sizes = r.tbl]) ELSE Failed(d)

SeedFabricType(d, row) ==
    LET r == UpdateOrCreate(d.fabrics, [name |-> row.name],
               [is_active |-> GetOr(row.is_active, TRUE)])
    IN  IF r.ok THEN Ok([d EXCEPT !.fabrics = r.tbl]) ELSE Failed(d)

SeedPrintPattern(d, row) ==
    LET r == UpdateOrCreate(d.patterns, [name |-> row.name],
               [is_active |-> GetOr(row.is_active, TRUE)])
    IN  IF r.ok THEN Ok([d EXCEPT !.patterns = r.tbl]) ELSE Failed(d)

SeedLocation(d, row) ==
    LET r == UpdateOrCreate(d.locations, [name |-> row.name], NoDefaults)
    IN  IF r.ok THEN Ok([d EXCEPT !.locations = r.tbl]) ELSE Failed(d)

SeedOrderStatus(d, row) ==
    LET r == UpdateOrCreate(d.statuses, [code |-> row.code],
               [display_name |-> GetOr(row.display_name, row.code),
                sort_order |-> row.sort_order.v])
    IN  IF row.sort_order.ok /\ r.ok THEN Ok([d EXCEPT !.statuses = r.tbl])
        ELSE Failed(d)

SeedCustomer(d, row) ==
    LET r == UpdateOrCreate(d.customers, [full_name |-> row.full_name],
               [phone |-> GetOr(row.phone, ""), email |-> GetOr(row.email, ""),
                address |-> GetOr(row.address, "")])
    IN  IF r.ok THEN Ok([d EXCEPT !.customers = r.tbl]) ELSE Failed(d)

SeedExpenseType(d, row) ==
    LET r == UpdateOrCreate(d.expenseTypes, [name |-> row.name], [is_active |-> TRUE])
    IN  IF r.ok THEN Ok([d EXCEPT !.expenseTypes = r.tbl]) ELSE Failed(d)

\* "unit_price" in row and row["unit_price"] is not None
PriceSupplied(row) == row.unit_price.given

\* the product_skus loop body of _seed_skus_and_inventory
SeedSku(d, row) ==
    LET g == _get_sku(d, row.size_code, row.fabric_type, row.print_pattern)
        obj == ProductSKU_save(g.db,
                 [g.db.skus[g.sku] EXCEPT !.unit_price = row.unit_price.v,
                                          !.is_active = GetOr(row.is_active, TRUE)])
    IN  IF ~g.ok THEN Failed(d)
        ELSE IF ~PriceSupplied(row) THEN Ok(g.db)
        ELSE IF ~row.unit_price.ok THEN Failed(d)
        ELSE Ok([g.db EXCEPT !.skus[g.sku].unit_price = Quantize(obj.unit_price),
                             !.skus[g.sku].is_active = obj.is_active])

\* the inventory_balances loop body of _seed_skus_and_inventory
SeedBalance(d, row) ==
    LET g == _get_sku(d, row.size_code, row.fabric_type, row.print_pattern)
        loc == _get_location(g.db, row.location)
        r == UpdateOrCreate(g.db.balances, [sku |-> g.sku, location |-> loc.id],
               [qty_on_hand |-> row.qty_on_hand.v,
                reorder_level |-> row.reorder_level.v])
    IN  IF g.ok /\ loc.ok /\ row.qty_on_hand.ok /\ row.reorder_level.ok /\ r.ok
        THEN Ok([g.db EXCEPT !.balances = r.tbl])
        ELSE Failed(d)

\* print_pattern=pattern if bool(row.get("is_printed", False)) else None
MaterialPattern(is_printed, pattern) == IF is_printed THEN pattern ELSE Null

\* the lookup both loops of _seed_fabrics make: [ok, db, id]
ResolveMaterial(d, row) ==
    LET fabric == _get_fabric(d, row.fabric_type)
        pattern == _get_print(d, row.print_pattern)
        printed == GetOr(row.is_printed, FALSE)
        uom == GetOr(row.uom, "meter")
        key == MaterialPattern(printed, pattern.id)
        r == GetOrCreate(d.materials,
               [fabric_type |-> fabric.id, uom |-> uom, is_printed |-> printed,
                print_pattern |-> key], NoDefaults)
    IN  IF fabric.ok /\ pattern.ok /\ r.ok
        THEN [ok |-> TRUE, db |-> [d EXCEPT !.materials = r.tbl], id |-> r.id]
        ELSE [ok |-> FALSE, db |-> d, id |-> Null]

\* the fabric_materials loop body of _seed_fabrics
SeedFabricMaterial(d, row) ==
    LET m == ResolveMaterial(d, row)
    IN  IF m.ok THEN Ok(m.db) ELSE Failed(d)

\* the fabric_inventory loop body of _seed_fabrics
SeedFabricInventory(d, row) ==
    LET m == ResolveMaterial(d, row)
        loc == _get_location(m.db, row.location)
        r == UpdateOrCreate(m.db.fabricInv,
               [fabric_material |-> m.id, location |-> loc.id],
               [qty_on_hand |-> row.qty_on_hand.v])
    IN  IF m.ok /\ loc.ok /\ row.qty_on_hand.ok /\ r.ok
        THEN Ok([m.db EXCEPT !.fabricInv = r.tbl])
        ELSE Failed(d)

\* a DateField accepts the text
IsDate(text) == text # "not-a-date"

\* the loop body of _seed_expenses
SeedExpense(d, row) ==
    LET et == Get(d.expenseTypes, [name |-> row.expense_type])
        amount == Quantize(row.amount.v)
        r == UpdateOrCreate(d.expenses,
               [expense_type |-> et.id, amount |-> amount,
                expense_date |-> row.expense_date],
               [currency |-> GetOr(row.currency, "EGP"),
                vendor |-> GetOr(row.vendor, ""), notes |-> GetOr(row.notes, "")])
    IN  IF et.ok /\ row.amount.ok /\ IsDate(row.expense_date) /\ r.ok
        THEN Ok([d EXCEPT !.expenses = r.tbl])
        ELSE Failed(d)

(***************************************************************************)
(* The Order Builder: the loop body of _seed_orders in three steps.  The   *)
(* locals of the loop are [row, existing, order, subtotal, shipping_fee,   *)
(* discount, j]: the head of the record, whether a stored order matched    *)
(* it, the order object's id and in-memory fees, the running subtotal and  *)
(* the position of the next item.                                          *)
(***************************************************************************)
NoStr == [given |-> FALSE, v |-> ""]

NoHead == [customer |-> "", status |-> "", order_date |-> "", notes |-> NoStr,
           shipping_fee |-> NoNum, discount |-> NoNum]

\* the head of an order record: the record without its items
HeadOf(row) == [customer |-> row.customer, status |-> row.status,
                order_date |-> row.order_date, notes |-> row.notes,
                shipping_fee |-> row.shipping_fee, discount |-> row.discount]

NoOrder == [row |-> NoHead, existing |-> FALSE, order |-> Null, subtotal |-> 0,
            shipping_fee |-> 0, discount |-> 0, j |-> 1]

\* a builder that clears the line items of every order
DeleteItemsAll(items, order) == <<>>

\* a builder that keeps the old items of the order
DeleteItemsNone(items, order) == items

\* order.items.all().delete()
DeleteItems(items, order) == SelectSeq(items, LAMBDA x : x.order # order)

\* a builder that takes the fees of a reused order from the record
RecordFees(stored, row) ==
    [shipping_fee |-> row.shipping_fee.v, discount |-> row.discount.v]

\* "order = existing": the fees of the order object are the stored ones
ReusedFees(stored, row) ==
    [shipping_fee |-> stored.shipping_fee, discount |-> stored.discount]

\* The header is looked up by (customer, order_date, notes) and reused, or
\* created from the record; then its items are deleted.  [ok, db, cur]
OrderHeader(d, row) ==
    LET customer == Get(d.customers, [full_name |-> row.customer])
        status == Get(d.statuses, [code |-> row.status])
        notes == GetOr(row.notes, "")
        ids == Matching(d.orders, [customer |-> customer.id,
                                   order_date |-> row.order_date, notes |-> notes])
        existing == First(ids)
        created == [customer |-> customer.id, status |-> status.id,
                    order_date |-> row.order_date, notes |-> notes,
                    subtotal |-> Quantize(0),
                    shipping_fee |-> Quantize(row.shipping_fee.v),
                    discount |-> Quantize(row.discount.v),
                    total |-> Quantize(0)]
    IN  IF ~customer.ok \/ ~status.ok \/ ~IsDate(row.order_date)
        THEN [ok |-> FALSE, db |-> d, cur |-> NoOrder]
        ELSE IF ids # {}
        THEN [ok |-> TRUE,
              db |-> [d EXCEPT !.items = DeleteItems(@, existing)],
              cur |-> [row |-> HeadOf(row), existing |-> TRUE,
                       order |-> existing, subtotal |-> 0,
                       shipping_fee |-> ReusedFees(d.orders[existing], row).shipping_fee,
                       discount |-> ReusedFees(d.orders[existing], row).discount,
                       j |-> 1]]
        ELSE IF ~row.shipping_fee.ok \/ ~row.discount.ok
        THEN [ok |-> FALSE, db |-> d, cur |-> NoOrder]
        ELSE [ok |-> TRUE,
              db |-> [d EXCEPT !.orders = Append(@, created),
                               !.items = DeleteItems(@, Len(d.orders) + 1)],
              cur |-> [row |-> HeadOf(row), existing |-> FALSE,
                       order |-> Len(d.orders) + 1, subtotal |-> 0,
                       shipping_fee |-> row.shipping_fee.v,
                       discount |-> row.discount.v, j |-> 1]]

\* line_total = unit_price * qty
LineTotal(unit_price, qty) == unit_price * qty

\* One item of the record: the SKU is resolved, the line item created and
\* the subtotal accumulated.  [ok, db, cur]
OrderItem(d, c, item) ==
    LET g == _get_sku(d, item.size_code, item.fabric_type, item.print_pattern)
        qty == item.qty.v
        unit_price == IF item.unit_price.given THEN item.unit_price.v
                      ELSE g.db.skus[g.sku].unit_price
        line_total == LineTotal(unit_price, qty)
    IN  IF ~g.ok \/ ~item.qty.ok \/ ~item.unit_price.ok
        THEN [ok |-> FALSE, db |-> d, cur |-> c]
        ELSE [ok |-> TRUE,
              db |-> [g.db EXCEPT !.items = Append(@,
                        [order |-> c.order, sku |-> g.sku, qty |-> qty,
                         unit_price |-> Quantize(unit_price),
                         line_total |-> Quantize(line_total)])],
              cur |-> [c EXCEPT !.subtotal = @ + line_total, !.j = @ + 1]]

\* total = subtotal + shipping_fee - discount, of the order object's values
OrderTotal(subtotal, shipping_fee, discount) == subtotal + shipping_fee - discount

\* order.save(update_fields=["subtotal", "total", "shipping_fee", "discount"])
OrderFinish(d, c) ==
    [d EXCEPT !.orders[c.order].subtotal = Quantize(c.subtotal),
              !.orders[c.order].total =
                  Quantize(OrderTotal(c.subtotal, c.shipping_fee, c.discount)),
              !.orders[c.order].shipping_fee = Quantize(c.shipping_fee),
              !.orders[c.order].discount = Quantize(c.discount)]

(***************************************************************************)
(* Fixtures.  The names and values fixture records are drawn from.          *)
(***************************************************************************)
STD == <<"S","T","D">>

Baby == <<"b","a","b","y">>

Cotton == <<"C","o","t","t","o","n">>

CottonBlend == <<"C","o","t","t","o","n"," ","B","l","e","n","d">>

CottonDashBlend == <<"C","o","t","t","o","n","-","B","l","e","n","d">>

Silk == <<"S","i","l","k">>

Floral == <<"F","l","o","r","a","l">>

Dots == <<"D","o","t","s">>

\* Cartesian product of two sets of lists, as concatenations
Lists(rows, n) ==
    LET RECURSIVE Upto(_)
        Upto(k) == IF k = 0 THEN {<<>>}
                   ELSE Upto(k - 1) \cup {Append(l, r) : l \in Upto(k - 1), r \in rows}
    IN  Upto(n)

SizeRows ==
    {[code |-> STD, display_name |-> NoText],
     [code |-> STD, display_name |-> Some(<<"S","t","d">>)],
     [code |-> Baby, display_name |-> NoText]}

FabricRows(f) ==
    {[name |-> f, is_active |-> NoFlag],
     [name |-> f, is_active |-> Some(FALSE)],
     [name |-> Silk, is_active |-> NoFlag]}

PatternRows ==
    {[name |-> Floral, is_active |-> NoFlag],
     [name |-> Floral, is_active |-> Some(FALSE)],
     [name |-> Dots, is_active |-> Some(TRUE)]}

LocationRows == {[name |-> "Main"], [name |-> "Shop"]}

StatusRows ==
    {[code |-> "NEW", display_name |-> NoStr, sort_order |-> NoNum],
     [code |-> "NEW", display_name |-> [given |-> TRUE, v |-> "New"], sort_order |-> Num(1)],
     [code |-> "SHIPPED", display_name |-> NoStr, sort_order |-> Num(2)],
     [code |-> "SHIPPED", display_name |-> NoStr, sort_order |-> BadNum]}

CustomerRows ==
    {[full_name |-> "Ann", phone |-> NoStr, email |-> NoStr, address |-> NoStr],
     [full_name |-> "Ann", phone |-> [given |-> TRUE, v |-> "0100"], email |-> NoStr,
      address |-> NoStr],
     [full_name |-> "Bob", phone |-> NoStr, email |-> [given |-> TRUE, v |-> "b@x.io"],
      address |-> [given |-> TRUE, v |-> "Cairo"]]}

ExpenseTypeRows == {[name |-> "Rent"], [name |-> "Ink"]}

SkuRows(f) ==
    {[size_code |-> STD, fabric_type |-> fab, print_pattern |-> pat,
      unit_price |-> price, is_active |-> act] :
        fab \in {f}, pat \in {NoText, Some(Floral)},
        price \in {NoNum, Num(4)}, act \in {NoFlag, Some(FALSE)}}
    \cup {[size_code |-> STD, fabric_type |-> f, print_pattern |-> Some(Dots),
           unit_price |-> NoNum, is_active |-> NoFlag],
          [size_code |-> STD, fabric_type |-> f, print_pattern |-> NoText,
           unit_price |-> BadNum, is_active |-> NoFlag]}

BalanceRows(f) ==
    {[size_code |-> STD, fabric_type |-> f, print_pattern |-> pat, location |-> loc,
      qty_on_hand |-> qty, reorder_level |-> NoNum] :
        pat \in {NoText, Some(Floral)}, loc \in {"Main", "Yard"},
        qty \in {NoNum, Num(7), BadNum}}

MaterialRows(f) ==
    {[fabric_type |-> f, uom |-> NoStr, is_printed |-> printed, print_pattern |-> pat] :
        printed \in {NoFlag, Some(TRUE), Some(FALSE)},
        pat \in {NoText, Some(Floral), Some(Dots)}}

FabricInventoryRows(f) ==
    {[fabric_type |-> f, uom |-> uom, is_printed |-> printed, print_pattern |-> pat,
      location |-> loc, qty_on_hand |-> qty] :
        uom \in {NoStr}, printed \in {NoFlag, Some(TRUE)}, pat \in {NoText, Some(Floral)},
        loc \in {"Main", "Yard"}, qty \in {Num(1500)}}

ItemRows(f) ==
    {[size_code |-> STD, fabric_type |-> f, print_pattern |-> NoText,
      qty |-> it.qty, unit_price |-> it.unit_price] :
        it \in {[qty |-> Num(2), unit_price |-> NoNum],
                [qty |-> Num(3), unit_price |-> Num(4)],
                [qty |-> Num(-1), unit_price |-> NoNum]}}

OrderHeads ==
    {[customer |-> "Ann", status |-> st.status, order_date |-> "2024-01-05",
      notes |-> notes, shipping_fee |-> st.shipping_fee, discount |-> st.discount] :
        st \in {[status |-> "NEW", shipping_fee |-> NoNum, discount |-> NoNum],
                [status |-> "SHIPPED", shipping_fee |-> Num(504), discount |-> Num(100)]},
        notes \in {NoStr, [given |-> TRUE, v |-> "ref-2"]}}

\* an order record: a head and its list of items
WithItems(head, items) ==
    [customer |-> head.customer, status |-> head.status,
     order_date |-> head.order_date, notes |-> head.notes,
     shipping_fee |-> head.shipping_fee, discount |-> head.discount,
     items |-> items]

\* Expense amounts are whole cents: the amount is part of the lookup key, and
\* whether a lookup rounds a finer amount as the column does depends on the
\* Django version.  created_at and updated_at are not part of the store.
ExpenseRows ==
    {[expense_type |-> et, amount |-> amount, expense_date |-> date,
      currency |-> NoStr, vendor |-> vendor, notes |-> NoStr] :
        et \in {"Rent", "Tax"}, amount \in {Num(5000), BadNum},
        date \in {"2024-01-05", "not-a-date"},
        vendor \in {[given |-> TRUE, v |-> "ACME"]}}

(***************************************************************************)
(* handle(): one run of the command over a fixture, inside one             *)
(* transaction.  pc is the list being seeded, idx the position of the next *)
(* record in it; before is the store as it was when the transaction        *)
(* began; outcome is "none" before the first run, then "running", "done"   *)
(* or "failed".                                                            *)
(***************************************************************************)
Stages == <<"product_sizes", "fabric_types", "print_patterns", "inventory_locations",
            "order_statuses", "customers", "expense_types", "product_skus",
            "inventory_balances", "fabric_materials", "fabric_inventory", "orders",
            "expenses">>

StageNo(s) == CHOOSE k \in 1..Len(Stages) : Stages[k] = s

\* the fabric the records of the batch fixtures refer to
BatchFabric == CottonBlend

BaseFixture ==
    [product_sizes |-> <<[code |-> STD, display_name |-> NoText]>>,
     fabric_types |-> <<[name |-> BatchFabric, is_active |-> NoFlag]>>,
     print_patterns |-> <<[name |-> Floral, is_active |-> NoFlag]>>,
     inventory_locations |-> <<[name |-> "Main"]>>,
     order_statuses |-> <<[code |-> "NEW", display_name |-> NoStr, sort_order |-> NoNum],
                          [code |-> "SHIPPED", display_name |-> NoStr, sort_order |-> Num(2)]>>,
     customers |-> <<[full_name |-> "Ann", phone |-> NoStr, email |-> NoStr,
                      address |-> NoStr]>>,
     expense_types |-> <<[name |-> "Rent"]>>,
     product_skus |-> <<[size_code |-> STD, fabric_type |-> BatchFabric,
                         print_pattern |-> NoText, unit_price |-> Num(250),
                         is_active |-> NoFlag]>>,
     inventory_balances |-> <<[size_code |-> STD, fabric_type |-> BatchFabric,
                               print_pattern |-> NoText, location |-> "Main",
                               qty_on_hand |-> Num(7), reorder_level |-> NoNum]>>,
     fabric_materials |-> <<[fabric_type |-> BatchFabric, uom |-> NoStr,
                             is_printed |-> Some(TRUE), print_pattern |-> Some(Floral)]>>,
     fabric_inventory |-> <<[fabric_type |-> BatchFabric, uom |-> NoStr,
                             is_printed |-> Some(TRUE), print_pattern |-> Some(Floral),
                             location |-> "Main", qty_on_hand |-> Num(1500)]>>,
     orders |-> <<[customer |-> "Ann", status |-> "NEW", order_date |-> "2024-01-05",
                   notes |-> NoStr, shipping_fee |-> NoNum, discount |-> NoNum,
                   items |-> <<[size_code |-> STD, fabric_type |-> BatchFabric,
                                print_pattern |-> NoText, qty |-> Num(2),
                                unit_price |-> NoNum]>>]>>,
     expenses |-> <<[expense_type |-> "Rent", amount |-> Num(5000),
                     expense_date |-> "2024-01-05", currency |-> NoStr,
                     vendor |-> [given |-> TRUE, v |-> "ACME"], notes |-> NoStr]>>]

BatchItem(pattern, qty, unit_price) ==
    [size_code |-> STD, fabric_type |-> BatchFabric, print_pattern |-> pattern,
     qty |-> qty, unit_price |-> unit_price]

BatchOrderRows ==
    {WithItems(h, l) :
        h \in OrderHeads,
        l \in {<<>>,
               <<BatchItem(Some(Floral), Num(2), Num(4))>>,
               <<BatchItem(NoText, Num(0), Num(250)), BatchItem(NoText, Num(-1), NoNum)>>,
               <<BatchItem(NoText, Num(1), NoNum), BatchItem(NoText, BadNum, NoNum)>>}}

\* the records a list of the fixture is drawn from
RowsOf(stage) ==
    CASE stage = "product_sizes" -> SizeRows
      [] stage = "fabric_types" -> FabricRows(BatchFabric)
      [] stage = "print_patterns" -> PatternRows
      [] stage = "inventory_locations" -> LocationRows
      [] stage = "order_statuses" -> StatusRows
      [] stage = "customers" -> CustomerRows
      [] stage = "expense_types" -> ExpenseTypeRows
      [] stage = "product_skus" -> SkuRows(BatchFabric)
      [] stage = "inventory_balances" -> BalanceRows(BatchFabric)
      [] stage = "fabric_materials" -> MaterialRows(BatchFabric)
      [] stage = "fabric_inventory" -> FabricInventoryRows(BatchFabric)
      [] stage = "orders" -> BatchOrderRows
      [] stage = "expenses" -> ExpenseRows

\* the fixtures of the model: the base fixture with one of its lists replaced
\* by any list of at most MaxRows records
Fixtures ==
    UNION {{[BaseFixture EXCEPT ![Stages[k]] = l] : l \in Lists(RowsOf(Stages[k]), MaxRows)} :
             k \in 1..Len(Stages)}

\* a run outside a transaction: the writes made before the exception stay
RollbackKeep(d, saved) == d

\* transaction.atomic(): what is left of the transaction's writes when an
\* exception leaves the block
Rollback(d, saved) == saved

\* an exception leaves handle(): pc and idx stay where it was raised
Abort ==
    /\ db' = Rollback(db, before)
    /\ outcome' = "failed"
    /\ UNCHANGED <<before, data, pc, idx, cur, runs, rerun>>

\* the outcome of a seed step on the record at idx: the next record, or the
\* exception that ends the run
Advance(r) ==
    IF r.ok
    THEN /\ db' = r.db
         /\ idx' = idx + 1
         /\ UNCHANGED <<before, data, pc, cur, runs, rerun, outcome>>
    ELSE Abort

Begin ==
    /\ outcome = "none"
    /\ runs < MaxRuns
    /\ \E f \in Fixtures : data' = f
    /\ before' = db
    /\ pc' = Stages[1]
    /\ idx' = 1
    /\ cur' = NoOrder
    /\ runs' = runs + 1
    /\ rerun' = FALSE
    /\ outcome' = "running"
    /\ UNCHANGED db

\* the command run again on the fixture of the run that just succeeded
Rerun ==
    /\ outcome = "done"
    /\ runs < MaxRuns
    /\ before' = db
    /\ pc' = Stages[1]
    /\ idx' = 1
    /\ cur' = NoOrder
    /\ runs' = runs + 1
    /\ rerun' = TRUE
    /\ outcome' = "running"
    /\ UNCHANGED <<db, data>>

SeedSizes ==
    /\ outcome = "running"
    /\ pc = "product_sizes"
    /\ idx <= Len(data.product_sizes)
    /\ Advance(SeedSize(db, data.product_sizes[idx]))

SeedFabricTypes ==
    /\ outcome = "running"
    /\ pc = "fabric_types"
    /\ idx <= Len(data.fabric_types)
    /\ Advance(SeedFabricType(db, data.fabric_types[idx]))

SeedPrintPatterns ==
    /\ outcome = "running"
    /\ pc = "print_patterns"
    /\ idx <= Len(data.print_patterns)
    /\ Advance(SeedPrintPattern(db, data.print_patterns[idx]))

SeedLocations ==
    /\ outcome = "running"
    /\ pc = "inventory_locations"
    /\ idx <= Len(data.inventory_locations)
    /\ Advance(SeedLocation(db, data.inventory_locations[idx]))

SeedOrderStatuses ==
    /\ outcome = "running"
    /\ pc = "order_statuses"
    /\ idx <= Len(data.order_statuses)
    /\ Advance(SeedOrderStatus(db, data.order_statuses[idx]))

SeedCustomers ==
    /\ outcome = "running"
    /\ pc = "customers"
    /\ idx <= Len(data.customers)
    /\ Advance(SeedCustomer(db, data.customers[idx]))

SeedExpenseTypes ==
    /\ outcome = "running"
    /\ pc = "expense_types"
    /\ idx <= Len(data.expense_types)
    /\ Advance(SeedExpenseType(db, data.expense_types[idx]))

SeedSkus ==
    /\ outcome = "running"
    /\ pc = "product_skus"
    /\ idx <= Len(data.product_skus)
    /\ Advance(SeedSku(db, data.product_skus[idx]))

SeedBalances ==
    /\ outcome = "running"
    /\ pc = "inventory_balances"
    /\ idx <= Len(data.inventory_balances)
    /\ Advance(SeedBalance(db, data.inventory_balances[idx]))

SeedFabricMaterials ==
    /\ outcome = "running"
    /\ pc = "fabric_materials"
    /\ idx <= Len(data.fabric_materials)
    /\ Advance(SeedFabricMaterial(db, data.fabric_materials[idx]))

SeedFabricInventories ==
    /\ outcome = "running"
    /\ pc = "fabric_inventory"
    /\ idx <= Len(data.fabric_inventory)
    /\ Advance(SeedFabricInventory(db, data.fabric_inventory[idx]))

SeedExpenses ==
    /\ outcome = "running"
    /\ pc = "expenses"
    /\ idx <= Len(data.expenses)
    /\ Advance(SeedExpense(db, data.expenses[idx]))

\* the head of the next order record
StartOrder(row) ==
    LET r == OrderHeader(db, row)
    IN  IF r.ok
        THEN /\ db' = r.db
             /\ cur' = r.cur
             /\ pc' = "items"
             /\ UNCHANGED <<before, data, idx, runs, rerun, outcome>>
        ELSE Abort

\* the next item of the order record
AddItem(item) ==
    LET r == OrderItem(db, cur, item)
    IN  IF r.ok
        THEN /\ db' = r.db
             /\ cur' = r.cur
             /\ UNCHANGED <<before, data, pc, idx, runs, rerun, outcome>>
        ELSE Abort

\* the totals written after the last item
CloseOrder ==
    /\ db' = OrderFinish(db, cur)
    /\ pc' = "orders"
    /\ idx' = idx + 1
    /\ UNCHANGED <<before, data, cur, runs, rerun, outcome>>

SeedOrderHeader ==
    /\ outcome = "running"
    /\ pc = "orders"
    /\ idx <= Len(data.orders)
    /\ StartOrder(data.orders[idx])

SeedOrderItem ==
    /\ outcome = "running"
    /\ pc = "items"
    /\ cur.j <= Len(data.orders[idx].items)
    /\ AddItem(data.orders[idx].items[cur.j])

SeedOrderTotals ==
    /\ outcome = "running"
    /\ pc = "items"
    /\ cur.j > Len(data.orders[idx].items)
    /\ CloseOrder

\* the end of a list: the next list, or the end of the transaction
EndList ==
    /\ outcome = "running"
    /\ pc \in Range(Stages)
    /\ idx > Len(data[pc])
    /\ pc' = IF pc = "expenses" THEN "end" ELSE Stages[StageNo(pc) + 1]
    /\ outcome' = IF pc = "expenses" THEN "done" ELSE outcome
    /\ idx' = 1
    /\ UNCHANGED <<db, before, data, cur, runs, rerun>>

\* a code typed into the admin form, which no derivation gives
LegacyCode == <<"O","L","D","-","1">>

\* A store that was filled before the seeder ran: a SKU whose code is code
\* (blank for a row written around ProductSKU.save), and an order of Ann's.
LegacyStore(code) ==
    [EmptyStore EXCEPT
       !.sizes = <<[code |-> STD, display_name |-> <<"O","l","d">>]>>,
       !.fabrics = <<[name |-> BatchFabric, is_active |-> FALSE]>>,
       !.statuses = <<[code |-> "NEW", display_name |-> "Fresh", sort_order |-> 5]>>,
       !.customers = <<[full_name |-> "Ann", phone |-> "0122", email |-> "",
                        address |-> ""]>>,
       !.skus = <<[sku_code |-> code, size |-> 1, fabric_type |-> 1,
                   print_pattern |-> Null, unit_price |-> 990, is_active |-> FALSE]>>,
       !.orders = <<[customer |-> 1, status |-> 1, order_date |-> "2024-01-05",
                     notes |-> "", subtotal |-> 990, shipping_fee |-> 200,
                     discount |-> 0, total |-> 1190]>>,
       !.items = <<[order |-> 1, sku |-> 1, qty |-> 1, unit_price |-> 990,
                    line_total |-> 990]>>]

InitialStores == {EmptyStore, LegacyStore(<<>>), LegacyStore(LegacyCode)}

Init ==
    /\ db \in InitialStores
    /\ before = db
    /\ data = BaseFixture
    /\ pc = "start"
    /\ idx = 1
    /\ cur = NoOrder
    /\ runs = 0
    /\ rerun = FALSE
    /\ outcome = "none"

Next ==
    \/ Begin
    \/ Rerun
    \/ SeedSizes
    \/ SeedFabricTypes
    \/ SeedPrintPatterns
    \/ SeedLocations
    \/ SeedOrderStatuses
    \/ SeedCustomers
    \/ SeedExpenseTypes
    \/ SeedSkus
    \/ SeedBalances
    \/ SeedFabricMaterials
    \/ SeedFabricInventories
    \/ SeedOrderHeader
    \/ SeedOrderItem
    \/ SeedOrderTotals
    \/ SeedExpenses
    \/ EndList

Spec == Init /\ [][Next]_vars

(***************************************************************************)
(* One run whose records are drawn as the run reaches them: the same seed  *)
(* steps, each on a record chosen from its domain, at most MaxRows records *)
(* a list and MaxItems items an order.                                     *)
(***************************************************************************)
RECURSIVE BuildItems(_, _)
\* the items of an order record from the next one on, after the step that
\* gave r: [ok, db, cur]
BuildItems(r, items) ==
    IF ~r.ok \/ r.cur.j > Len(items) THEN r
    ELSE BuildItems(OrderItem(r.db, r.cur, items[r.cur.j]), items)

\* the totals of an order whose header and items gave b
BuildTotals(d, b) == IF b.ok THEN Ok(OrderFinish(b.db, b.cur)) ELSE Failed(d)

\* one pass of the loop body of _seed_orders: header, items, totals
BuildOrder(d, row) == BuildTotals(d, BuildItems(OrderHeader(d, row), row.items))

\* the seed step of a list of the fixture
SeedRow(stage, d, row) ==
    CASE stage = "product_sizes" -> SeedSize(d, row)
      [] stage = "fabric_types" -> SeedFabricType(d, row)
      [] stage = "print_patterns" -> SeedPrintPattern(d, row)
      [] stage = "inventory_locations" -> SeedLocation(d, row)
      [] stage = "order_statuses" -> SeedOrderStatus(d, row)
      [] stage = "customers" -> SeedCustomer(d, row)
      [] stage = "expense_types" -> SeedExpenseType(d, row)
      [] stage = "product_skus" -> SeedSku(d, row)
      [] stage = "inventory_balances" -> SeedBalance(d, row)
      [] stage = "fabric_materials" -> SeedFabricMaterial(d, row)
      [] stage = "fabric_inventory" -> SeedFabricInventory(d, row)
      [] stage = "orders" -> BuildOrder(d, row)
      [] stage = "expenses" -> SeedExpense(d, row)

RECURSIVE SeedList(_, _, _)
\* the store after the records of a list have gone through their seed step
SeedList(stage, d, rows) ==
    IF rows = <<>> THEN d
    ELSE SeedList(stage, SeedRow(stage, d, Head(rows)).db, Tail(rows))

RECURSIVE SeedLists(_, _, _)
\* the store after the first n lists of a fixture
SeedLists(fx, d, n) ==
    IF n = 0 THEN d
    ELSE SeedList(Stages[n], SeedLists(fx, d, n - 1), fx[Stages[n]])

\* the store after _seed_reference on a fixture
SeededReference(fx) == SeedLists(fx, EmptyStore, StageNo("expense_types"))

\* the store the order records are drawn against: the reference data and the
\* SKUs of the base fixture
OrderStore == SeedLists(BaseFixture, EmptyStore, StageNo("product_skus"))

StreamInit(store, stage) ==
    /\ db = store
    /\ before = store
    /\ data = [s \in Range(Stages) |-> <<>>]
    /\ pc = stage
    /\ idx = 1
    /\ cur = NoOrder
    /\ runs = 1
    /\ rerun = FALSE
    /\ outcome = "running"

\* the list ends after the records drawn so far
StreamEnd(next) ==
    /\ pc' = next
    /\ outcome' = IF next = "end" THEN "done" ELSE outcome
    /\ idx' = 1
    /\ UNCHANGED <<db, before, data, cur, runs, rerun>>

NextOrder ==
    /\ outcome = "running"
    /\ pc = "orders"
    /\ idx <= MaxRows
    /\ \E head \in OrderHeads : StartOrder(head)

NextItem ==
    /\ outcome = "running"
    /\ pc = "items"
    /\ cur.j <= MaxItems
    /\ \E item \in ItemRows(BatchFabric) : AddItem(item)

LastItem ==
    /\ outcome = "running"
    /\ pc = "items"
    /\ CloseOrder

OrdersEnd ==
    /\ outcome = "running"
    /\ pc = "orders"
    /\ StreamEnd("end")

InitOrders == StreamInit(OrderStore, "orders")

NextOrders == NextOrder \/ NextItem \/ LastItem \/ OrdersEnd

SpecOrders == InitOrders /\ [][NextOrders]_vars

\* Fabric and pattern names the catalog is drawn over: every text of at most
\* MaxLen characters of NameChars, and the names of the documentation
NameChars == {"a", "B", "7", " ", "-", "_", "&"}

Texts(n) ==
    LET RECURSIVE Upto(_)
        Upto(k) == IF k = 0 THEN {<<>>}
                   ELSE Upto(k - 1) \cup {Append(s, c) : s \in Upto(k - 1), c \in NameChars}
    IN  Upto(n)

FabricNames == Texts(MaxLen) \cup {Cotton, CottonBlend, CottonDashBlend}

PatternNames == {Floral, <<"P","o","l","k","a"," ","D","o","t","s"," ","&"," ","C","o">>}

\* the reference data of the base fixture with one size, fabric and pattern
CatalogStore(size_code, fabric_name, pattern_name) ==
    SeededReference([BaseFixture EXCEPT
        !.product_sizes = <<[code |-> size_code, display_name |-> NoText]>>,
        !.fabric_types = <<[name |-> fabric_name, is_active |-> NoFlag]>>,
        !.print_patterns = <<[name |-> pattern_name, is_active |-> NoFlag]>>])

CatalogSkuRows ==
    {[size_code |-> db.sizes[1].code, fabric_type |-> db.fabrics[1].name,
      print_pattern |-> pat, unit_price |-> price, is_active |-> act] :
        pat \in {NoText, Some(db.patterns[1].name)},
        price \in {NoNum, Num(250), Num(4)},
        act \in {NoFlag, Some(FALSE), Some(TRUE)}}

CatalogBalanceRows ==
    {[size_code |-> db.sizes[1].code, fabric_type |-> db.fabrics[1].name,
      print_pattern |-> pat, location |-> "Main",
      qty_on_hand |-> Num(7), reorder_level |-> Num(1)] :
        pat \in {NoText, Some(db.patterns[1].name)}}

NextSku ==
    /\ outcome = "running"
    /\ pc = "product_skus"
    /\ idx <= MaxRows
    /\ \E row \in CatalogSkuRows : Advance(SeedSku(db, row))

SkusEnd ==
    /\ outcome = "running"
    /\ pc = "product_skus"
    /\ StreamEnd("inventory_balances")

NextBalance ==
    /\ outcome = "running"
    /\ pc = "inventory_balances"
    /\ idx <= MaxRows
    /\ \E row \in CatalogBalanceRows : Advance(SeedBalance(db, row))

BalancesEnd ==
    /\ outcome = "running"
    /\ pc = "inventory_balances"
    /\ StreamEnd("end")

InitCatalog ==
    \E size_code \in {STD, Baby}, fabric_name \in FabricNames,
       pattern_name \in PatternNames :
        StreamInit(CatalogStore(size_code, fabric_name, pattern_name), "product_skus")

NextCatalog == NextSku \/ SkusEnd \/ NextBalance \/ BalancesEnd

SpecCatalog == InitCatalog /\ [][NextCatalog]_vars

(***************************************************************************)
(* The Order Builder on a fixture that holds an order record twice in a    *)
(* row, after at most one other record.  Here before is the store as it    *)
(* was when the build of the current record began.                         *)
(***************************************************************************)
\* the order records with at most MaxItems items: items at the SKU's price,
\* at a price of their own, and of a SKU that the first resolve creates
BuildRecords ==
    {WithItems(h, l) :
        h \in OrderHeads,
        l \in Lists({BatchItem(NoText, Num(2), NoNum), BatchItem(NoText, Num(3), Num(4)),
                     BatchItem(Some(Floral), Num(2), NoNum)}, MaxItems)}

\* the fixture holds a record twice, alone or after another record
InitRebuild ==
    /\ db = OrderStore
    /\ before = OrderStore
    /\ \E l \in {<<r, r>> : r \in BuildRecords}
                 \cup {<<o, r, r>> : o, r \in BuildRecords} :
          data = [BaseFixture EXCEPT !.orders = l]
    /\ pc = "orders"
    /\ idx = 1
    /\ cur = NoOrder
    /\ runs = 1
    /\ rerun = FALSE
    /\ outcome = "running"

\* the head of the next order record; the store is remembered as the build
\* begins
BuildHeader ==
    /\ outcome = "running"
    /\ pc = "orders"
    /\ idx <= Len(data.orders)
    /\ OrderHeader(db, data.orders[idx]).ok
    /\ db' = OrderHeader(db, data.orders[idx]).db
    /\ cur' = OrderHeader(db, data.orders[idx]).cur
    /\ before' = db
    /\ pc' = "items"
    /\ UNCHANGED <<data, idx, runs, rerun, outcome>>

BuildsEnd ==
    /\ outcome = "running"
    /\ pc = "orders"
    /\ idx > Len(data.orders)
    /\ StreamEnd("end")

NextRebuild == BuildHeader \/ SeedOrderItem \/ SeedOrderTotals \/ BuildsEnd

SpecRebuild == InitRebuild /\ [][NextRebuild]_vars

(***************************************************************************)
(* Two runs of the command at once on one store, each in its own           *)
(* transaction, under READ COMMITTED: a statement sees the committed rows  *)
(* and the rows of its own transaction.  Here db holds the rows of every   *)
(* transaction; pc, idx and outcome are per run; cur[p] holds the rows run *)
(* p inserted (unseen by the other run until p commits) and the rows it    *)
(* locked; before[p] holds the committed value of each row p locked.  A    *)
(* run waits while the other holds a row it must lock, or holds an         *)
(* uncommitted row that a row it inserts would collide with; after the     *)
(* wait get_or_create looks the row up again, so the record is processed   *)
(* on what is then committed.  No initial store holds an order, so the     *)
(* two runs never rebuild one stored order at the same time.               *)
(***************************************************************************)
Runs == {1, 2}

Tables == DOMAIN EmptyStore

\* what a lookup sees in place of a row of another open transaction: a row
\* that matches no key
HiddenRows ==
    [sizes |-> [code |-> <<"~">>, display_name |-> <<>>],
     fabrics |-> [name |-> <<"~">>, is_active |-> FALSE],
     patterns |-> [name |-> <<"~">>, is_active |-> FALSE],
     locations |-> [name |-> "~"],
     statuses |-> [code |-> "~", display_name |-> "", sort_order |-> 0],
     customers |-> [full_name |-> "~", phone |-> "", email |-> "", address |-> ""],
     expenseTypes |-> [name |-> "~", is_active |-> FALSE],
     skus |-> [sku_code |-> <<"~">>, size |-> -1, fabric_type |-> -1,
               print_pattern |-> -1, unit_price |-> 0, is_active |-> FALSE],
     balances |-> [sku |-> -1, location |-> -1, qty_on_hand |-> 0, reorder_level |-> 0],
     materials |-> [fabric_type |-> -1, uom |-> "~", is_printed |-> FALSE,
                    print_pattern |-> -1],
     fabricInv |-> [fabric_material |-> -1, location |-> -1, qty_on_hand |-> 0],
     orders |-> [customer |-> -1, status |-> -1, order_date |-> "~", notes |-> "~",
                 subtotal |-> 0, shipping_fee |-> 0, discount |-> 0, total |-> 0],
     expenses |-> [expense_type |-> -1, amount |-> -1, expense_date |-> "~",
                   currency |-> "", vendor |-> "", notes |-> ""]]

\* the rows run p does not see: those inserted by a transaction, other than
\* its own, that has not committed (p = 0: what is committed)
HiddenFrom(p) ==
    UNION {cur[q].inserted : q \in {r \in Runs : r # p /\ outcome[r] # "done"}}

\* the store as the statements of run p see it; a row another run has locked
\* is read at its committed value
View(p) ==
    [t \in Tables |->
        IF t = "items"
        THEN SelectSeq(db.items, LAMBDA x : <<"orders", x.order>> \notin HiddenFrom(p))
        ELSE [k \in 1..Len(db[t]) |->
                IF <<t, k>> \in HiddenFrom(p) THEN HiddenRows[t]
                ELSE IF \E q \in Runs \ {p} :
                           outcome[q] = "running" /\ <<t, k>> \in cur[q].locked
                THEN before[CHOOSE q \in Runs \ {p} :
                              outcome[q] = "running" /\ <<t, k>> \in cur[q].locked][t][k]
                ELSE db[t][k]]]

\* the ids of a table as rows
RowsOfTable(t, ids) == {<<t, k>> : k \in ids}

\* The rows a record's statements lock in store v: the row that
\* update_or_create's select_for_update matched, and the row an UPDATE of
\* save() writes.
LockedRows(stage, v, row) ==
    CASE stage = "product_sizes" ->
           RowsOfTable("sizes", Matching(v.sizes, [code |-> row.code]))
      [] stage = "fabric_types" ->
           RowsOfTable("fabrics", Matching(v.fabrics, [name |-> row.name]))
      [] stage = "print_patterns" ->
           RowsOfTable("patterns", Matching(v.patterns, [name |-> row.name]))
      [] stage = "inventory_locations" ->
           RowsOfTable("locations", Matching(v.locations, [name |-> row.name]))
      [] stage = "order_statuses" ->
           RowsOfTable("statuses", Matching(v.statuses, [code |-> row.code]))
      [] stage = "customers" ->
           RowsOfTable("customers", Matching(v.customers, [full_name |-> row.full_name]))
      [] stage = "expense_types" ->
           RowsOfTable("expenseTypes", Matching(v.expenseTypes, [name |-> row.name]))
      [] stage = "product_skus" ->
           LET g == _get_sku(v, row.size_code, row.fabric_type, row.print_pattern)
           IN  IF g.ok /\ PriceSupplied(row) /\ g.sku <= Len(v.skus)
               THEN {<<"skus", g.sku>>} ELSE {}
      [] stage = "inventory_balances" ->
           LET g == _get_sku(v, row.size_code, row.fabric_type, row.print_pattern)
               loc == _get_location(v, row.location)
           IN  IF g.ok /\ loc.ok
               THEN RowsOfTable("balances",
                      Matching(v.balances, [sku |-> g.sku, location |-> loc.id]))
               ELSE {}
      [] stage = "fabric_materials" ->
           LET m == ResolveMaterial(v, row)
           IN  IF m.ok /\ m.id <= Len(v.materials) THEN {<<"materials", m.id>>} ELSE {}
      [] stage = "fabric_inventory" ->
           LET m == ResolveMaterial(v, row)
               loc == _get_location(v, row.location)
           IN  IF m.ok /\ loc.ok
               THEN RowsOfTable("fabricInv",
                      Matching(v.fabricInv, [fabric_material |-> m.id,
                                             location |-> loc.id]))
               ELSE {}
      [] stage = "orders" ->
           LET customer == Get(v.customers, [full_name |-> row.customer])
               ids == Matching(v.orders, [customer |-> customer.id,
                                          order_date |-> row.order_date,
                                          notes |-> GetOr(row.notes, "")])
           IN  IF customer.ok /\ ids # {} THEN {<<"orders", First(ids)>>} ELSE {}
      [] stage = "expenses" ->
           LET et == Get(v.expenseTypes, [name |-> row.expense_type])
           IN  IF et.ok
               THEN RowsOfTable("expenses",
                      Matching(v.expenses, [expense_type |-> et.id,
                                            amount |-> Quantize(row.amount.v),
                                            expense_date |-> row.expense_date]))
               ELSE {}

\* two rows of a table that a unique index or constraint of the table keeps
\* apart (a constraint does not compare rows whose print_pattern is NULL)
SameUnique(t, a, b) ==
    CASE t \in {"sizes", "statuses"} -> a.code = b.code
      [] t \in {"fabrics", "patterns", "locations", "expenseTypes"} -> a.name = b.name
      [] t = "skus" ->
           \/ a.sku_code = b.sku_code
           \/ /\ a.print_pattern # Null
              /\ a.size = b.size /\ a.fabric_type = b.fabric_type
              /\ a.print_pattern = b.print_pattern
      [] t = "balances" -> a.sku = b.sku /\ a.location = b.location
      [] t = "materials" ->
           /\ a.print_pattern # Null
           /\ a.fabric_type = b.fabric_type /\ a.uom = b.uom
           /\ a.is_printed = b.is_printed /\ a.print_pattern = b.print_pattern
      [] t = "fabricInv" ->
           a.fabric_material = b.fabric_material /\ a.location = b.location
      [] t \in {"customers", "orders", "expenses"} -> FALSE

\* the rows a step with result r inserts
RaceInserts(r) ==
    UNION {RowsOfTable(t, (Len(db[t]) + 1)..Len(r.db[t])) : t \in Tables \ {"items"}}

\* the rows a step with result r on the store v writes
RaceWrites(v, r) ==
    UNION {RowsOfTable(t, {k \in 1..Len(db[t]) : r.db[t][k] # v[t][k]}) :
             t \in Tables \ {"items"}}

\* run p, whose step gives r and locks the rows in locks, has to wait for the
\* other run
RaceBlocked(p, r, locks) ==
    \E q \in Runs \ {p} :
        /\ outcome[q] = "running"
        /\ \/ locks \cap cur[q].locked # {}
           \/ \E n \in RaceInserts(r), m \in cur[q].inserted :
                /\ n[1] = m[1]
                /\ SameUnique(n[1], r.db[n[1]][n[2]], db[m[1]][m[2]])

\* One record of run p: v is the store p sees, r what the seed step of the
\* record makes of it, locks the rows it writes or selects for update.
RaceStep(p) ==
    /\ outcome[p] = "running"
    /\ idx[p] <= Len(data[pc[p]])
    /\ \E v \in {View(p)} :
       \E r \in {SeedRow(pc[p], v, data[pc[p]][idx[p]])} :
       \E locks \in {RaceWrites(v, r) \cup LockedRows(pc[p], v, data[pc[p]][idx[p]])} :
          /\ r.ok
          /\ ~RaceBlocked(p, r, locks)
          /\ db' = [t \in Tables |->
                IF t = "items"
                THEN SelectSeq(db.items,
                               LAMBDA x : <<"orders", x.order>> \in HiddenFrom(p))
                       \o r.db.items
                ELSE [k \in 1..Len(r.db[t]) |->
                        IF k > Len(db[t]) \/ r.db[t][k] # v[t][k]
                        THEN r.db[t][k] ELSE db[t][k]]]
          /\ cur' = [cur EXCEPT ![p] = [inserted |-> @.inserted \cup RaceInserts(r),
                                        locked |-> @.locked \cup locks]]
          /\ before' = [before EXCEPT ![p] =
                [t \in Tables \ {"items"} |->
                    [k \in 1..Len(db[t]) |->
                        IF <<t, k>> \in cur[p].locked THEN before[p][t][k]
                        ELSE IF <<t, k>> \in locks THEN db[t][k]
                        ELSE HiddenRows[t]]]]
    /\ idx' = [idx EXCEPT ![p] = @ + 1]
    /\ UNCHANGED <<data, pc, runs, rerun, outcome>>

\* an exception leaves run p: its transaction is rolled back
RaceAbort(p) ==
    /\ outcome[p] = "running"
    /\ idx[p] <= Len(data[pc[p]])
    /\ ~SeedRow(pc[p], View(p), data[pc[p]][idx[p]]).ok
    /\ db' = [t \in Tables |->
                IF t = "items" THEN db.items
                ELSE [k \in 1..Len(db[t]) |->
                        IF <<t, k>> \in cur[p].locked THEN before[p][t][k]
                        ELSE db[t][k]]]
    /\ cur' = [cur EXCEPT ![p].locked = {}]
    /\ outcome' = [outcome EXCEPT ![p] = "failed"]
    /\ UNCHANGED <<before, data, pc, idx, runs, rerun>>

\* run p goes on to the next list
RaceNextList(p) ==
    /\ outcome[p] = "running"
    /\ idx[p] > Len(data[pc[p]])
    /\ pc[p] # "expenses"
    /\ pc' = [pc EXCEPT ![p] = Stages[StageNo(@) + 1]]
    /\ idx' = [idx EXCEPT ![p] = 1]
    /\ UNCHANGED <<db, before, data, cur, runs, rerun, outcome>>

\* the transaction of run p commits
RaceCommit(p) ==
    /\ outcome[p] = "running"
    /\ idx[p] > Len(data[pc[p]])
    /\ pc[p] = "expenses"
    /\ outcome' = [outcome EXCEPT ![p] = "done"]
    /\ cur' = [cur EXCEPT ![p] = [inserted |-> {}, locked |-> {}]]
    /\ UNCHANGED <<db, before, data, pc, idx, runs, rerun>>

\* a fixture that holds only some lists of the base fixture
OnlyLists(stages) ==
    [s \in DOMAIN BaseFixture |-> IF s \in stages THEN BaseFixture[s] ELSE <<>>]

\* the base fixture, single lists of it, a stored SKU with one that is not
\* stored, and a raw fabric with a printed one
RaceFixtures ==
    {BaseFixture, OnlyLists({"customers"}), OnlyLists({"customers", "orders"}),
     OnlyLists({"orders"}), OnlyLists({"expenses"}), OnlyLists({"inventory_balances"}),
     [OnlyLists({}) EXCEPT !.product_skus =
        <<[size_code |-> STD, fabric_type |-> BatchFabric, print_pattern |-> NoText,
           unit_price |-> Num(250), is_active |-> NoFlag],
          [size_code |-> STD, fabric_type |-> BatchFabric,
           print_pattern |-> Some(Floral), unit_price |-> Num(250),
           is_active |-> NoFlag]>>],
     [OnlyLists({}) EXCEPT !.fabric_materials =
        <<[fabric_type |-> BatchFabric, uom |-> NoStr, is_printed |-> NoFlag,
           print_pattern |-> NoText],
          [fabric_type |-> BatchFabric, uom |-> NoStr, is_printed |-> Some(TRUE),
           print_pattern |-> Some(Floral)]>>]}

\* the store is empty, or holds the reference data without a customer, or
\* all that the orders need
InitRace ==
    /\ db \in {EmptyStore, SeededReference([BaseFixture EXCEPT !.customers = <<>>]),
               OrderStore}
    /\ data \in RaceFixtures
    /\ before = [p \in Runs |-> [t \in (Tables \ {"items"}) |-> <<>>]]
    /\ pc = [p \in Runs |-> Stages[1]]
    /\ idx = [p \in Runs |-> 1]
    /\ cur = [p \in Runs |-> [inserted |-> {}, locked |-> {}]]
    /\ runs = Cardinality(Runs)
    /\ rerun = FALSE
    /\ outcome = [p \in Runs |-> "running"]

NextRace ==
    \E p \in Runs : RaceStep(p) \/ RaceAbort(p) \/ RaceNextList(p) \/ RaceCommit(p)

SpecRace == InitRace /\ [][NextRace]_vars

(***************************************************************************)
(* Properties.  Money is in thousandths, so a stored column is a multiple  *)
(* of 10.                                                                  *)
(***************************************************************************)
\* the stored line items of an order
ItemsOf(d, order) == SelectSeq(d.items, LAMBDA x : x.order = order)

RECURSIVE SumLineTotals(_)
SumLineTotals(rows) ==
    IF rows = <<>> THEN 0 ELSE Head(rows).line_total + SumLineTotals(Tail(rows))

\* the three equations of a stored order and its stored items
OrderConsistent(d, k) ==
    /\ d.orders[k].total = d.orders[k].subtotal + d.orders[k].shipping_fee
                             - d.orders[k].discount
    /\ d.orders[k].subtotal = SumLineTotals(ItemsOf(d, k))
    /\ \A n \in 1..Len(d.items) :
         d.items[n].order = k => d.items[n].line_total = d.items[n].unit_price * d.items[n].qty

\* the builder has finished the record of order cur.order
OrderBuilt == outcome # "failed" /\ pc \in {"orders", "expenses", "end"} /\ cur.order # Null

\* C1: once the Order Builder has finished an order record, the stored order
\* has total = subtotal + shipping_fee - discount, its subtotal is the sum of
\* the line totals of its stored items, and each stored item has
\* line_total = unit_price * qty.
C1_BuiltOrderConsistent == OrderBuilt => OrderConsistent(db, cur.order)

\* the row counts of all tables
RowCounts(d) == [t \in DOMAIN d |-> Len(d[t])]

\* the reference tables and the field that keys each
ReferenceKeys ==
    [sizes |-> "code", fabrics |-> "name", patterns |-> "name", locations |-> "name",
     statuses |-> "code", customers |-> "full_name", expenseTypes |-> "name"]

NoDuplicates(tbl, key) ==
    \A i, j \in 1..Len(tbl) : tbl[i][key] = tbl[j][key] => i = j

C3_FailedRunLeavesNothing == outcome = "failed" => db = before

\* a run on the empty store failed in the last list, after every earlier list
\* had written its rows
C3_Witness ==
    outcome = "failed" /\ pc = "expenses" /\ before = EmptyStore /\ Len(data.orders) > 0

\* C4: no stored material is unprinted with a pattern, and none is printed
\* without one.
C4_PrintedIffPattern ==
    \A k \in 1..Len(db.materials) :
        db.materials[k].is_printed <=> db.materials[k].print_pattern # Null

\* a step creates no SKU with a blank code and alters no code that was set
CodesKept(d, e) ==
    \A k \in 1..Len(e.skus) :
        IF k > Len(d.skus) THEN e.skus[k].sku_code # <<>>
        ELSE d.skus[k].sku_code # <<>> => e.skus[k].sku_code = d.skus[k].sku_code

\* C5: every step of the seeder gives a SKU it creates a non-blank code and
\* leaves every code that is set as it is.  (The rollback of a failed run
\* restores the store, a code the run had filled in included.)
C5_CodeSetOnceAndKept == [][outcome' # "failed" => CodesKept(db, db')]_vars

\* a run ended in which a SKU whose code no derivation gives was resolved
\* and kept it, next to a SKU the run created
C5_Witness ==
    /\ outcome = "done"
    /\ Len(db.skus) >= 2
    /\ db.skus[1].sku_code = LegacyCode
    /\ LegacyCode # SeedCodeOf(db, db.skus[1].size, db.skus[1].fabric_type,
                               db.skus[1].print_pattern)
    /\ \E k \in 1..Len(db.balances) : db.balances[k].sku = 1

\* a name with every non-alphanumeric character removed, uppercased and cut
Normalized(name, n) == Take(upper(SelectSeq(name, IsAlnum)), n)

\* BAG-<SIZE>-<FABRIC>-<PRINT> as documented
DocumentedCode(d, sku) ==
    BagPrefix \o <<"-">> \o upper(d.sizes[sku.size].code) \o <<"-">>
      \o Normalized(d.fabrics[sku.fabric_type].name, FabricCodeLen) \o <<"-">>
      \o (IF sku.print_pattern = Null THEN Plain
          ELSE Normalized(d.patterns[sku.print_pattern].name, PrintCodeLen))

\* C6: the code of every SKU the Catalog Resolver created is BAG-<SIZE>-
\* <FABRIC>-<PRINT> with the fabric and pattern names stripped of every
\* non-alphanumeric character, uppercased and cut to 10 and 12 characters.
C6_CodeAsDocumented ==
    \A k \in 1..Len(db.skus) : db.skus[k].sku_code = DocumentedCode(db, db.skus[k])

\* C7: every stored order has total = subtotal + shipping_fee - discount, in
\* every state, the one right after its header is created included.
C7_TotalAtAllTimes ==
    \A k \in 1..Len(db.orders) :
        db.orders[k].total = db.orders[k].subtotal + db.orders[k].shipping_fee
                               - db.orders[k].discount

\* the fields of an order that are not its totals
HeaderFields(o) == <<o.customer, o.status, o.order_date, o.notes, o.shipping_fee, o.discount>>

\* a step of the builder on a record that matched a stored order
ReuseStep == outcome' = "running" /\ cur'.existing /\ (pc = "items" \/ pc' = "items")

\* C8: while the builder processes a record that matched a stored order, no
\* other order changes, the matched order keeps its customer, status, date,
\* notes, shipping_fee and discount, and the total written at the end is the
\* subtotal plus the stored shipping_fee minus the stored discount.
C8_ReuseKeepsHeader ==
    [][ReuseStep =>
         /\ Len(db'.orders) = Len(db.orders)
         /\ \A k \in 1..Len(db.orders) :
              IF k = cur'.order
              THEN HeaderFields(db'.orders[k]) = HeaderFields(db.orders[k])
              ELSE db'.orders[k] = db.orders[k]
         /\ pc' = "orders" =>
              db'.orders[cur.order].total =
                  Quantize(cur.subtotal + db.orders[cur.order].shipping_fee
                             - db.orders[cur.order].discount)]_vars

\* a record that supplies another status, shipping fee and discount than the
\* order it matched has been built, with an item
C8_Witness ==
    /\ pc = "orders" /\ cur.order # Null /\ cur.existing
    /\ cur.row.status # db.statuses[db.orders[cur.order].status].code
    /\ cur.row.shipping_fee.given
    /\ Quantize(cur.row.shipping_fee.v) # db.orders[cur.order].shipping_fee
    /\ cur.row.discount.given
    /\ Quantize(cur.row.discount.v) # db.orders[cur.order].discount
    /\ ItemsOf(db, cur.order) # <<>>

\* the product_skus record at idx has been processed
SkuRecordDone == outcome = "running" /\ pc = "product_skus" /\ outcome' = "running"
                   /\ idx' = idx + 1

\* C9: after a product_skus record is processed the resolved SKU has the
\* unit_price the record supplies (at the precision of the column) and the
\* is_active it supplies, each written whether or not the other is supplied,
\* and a field the record does not supply is unchanged on a SKU that existed.
C9_SuppliedFieldsWritten ==
    [][SkuRecordDone =>
         LET row == data.product_skus[idx]
             s == _get_sku(db, row.size_code, row.fabric_type, row.print_pattern).sku
             existed == s <= Len(db.skus)
         IN  /\ row.unit_price.given =>
                  db'.skus[s].unit_price = Quantize(row.unit_price.v)
             /\ row.is_active.given => db'.skus[s].is_active = row.is_active.v
             /\ (existed /\ ~row.unit_price.given) =>
                  db'.skus[s].unit_price = db.skus[s].unit_price
             /\ (existed /\ ~row.is_active.given) =>
                  db'.skus[s].is_active = db.skus[s].is_active]_vars

\* C10: every stored order item has qty >= 1.
C10_QtyAtLeastOne == \A n \in 1..Len(db.items) : db.items[n].qty >= 1

\* the line items of the orders other than order
ItemsOfOthers(d, order) == SelectSeq(d.items, LAMBDA x : x.order # order)

\* the record just built is the record built before it
BuiltTwice ==
    /\ outcome # "failed" /\ pc = "orders" /\ cur.order # Null
    /\ idx > 2 /\ idx <= Len(data.orders) + 1
    /\ data.orders[idx - 1] = data.orders[idx - 2]

\* C11: when a record has been built a second time, its order holds the line
\* items it held after the first build (same SKU, qty, unit_price and
\* line_total, as many of them: the first build's items are gone and none is
\* there twice), and no build changes the line items of the other orders.
C11_RebuildSameItems ==
    /\ (outcome # "failed" /\ pc = "orders" /\ cur.order # Null) =>
          ItemsOfOthers(db, cur.order) = ItemsOfOthers(before, cur.order)
    /\ BuiltTwice =>
          /\ ItemsOf(db, cur.order) = ItemsOf(before, cur.order)
          /\ Len(db.orders) = Len(before.orders)

\* a record with two items has been built twice while another order holds
\* an item of its own
C11_Witness ==
    /\ BuiltTwice
    /\ Len(ItemsOf(db, cur.order)) = 2
    /\ ItemsOfOthers(db, cur.order) # <<>>
    /\ cur.existing

\* both runs have ended
RaceEnded == \A p \in Runs : outcome[p] \in {"done", "failed"}

\* the fields of each upsert key
UpsertKeys ==
    [skus |-> {"size", "fabric_type", "print_pattern"},
     materials |-> {"fabric_type", "uom", "is_printed", "print_pattern"},
     customers |-> {"full_name"},
     orders |-> {"customer", "order_date", "notes"},
     expenses |-> {"expense_type", "amount", "expense_date"},
     balances |-> {"sku", "location"}]

\* the ids of the committed rows of a table
CommittedIds(t) == {k \in 1..Len(db[t]) : <<t, k>> \notin HiddenFrom(0)}

\* C12: when two runs on the same fixture have both ended, whichever way
\* their statements interleaved and whether or not one of them failed, the
\* committed store holds at most one row for each upsert key: SKU triple,
\* fabric material variant, customer name, order (customer, date, notes),
\* expense (type, amount, date) and balance (SKU, location).
C12_OneRowPerUpsertKey ==
    RaceEnded =>
        \A t \in DOMAIN UpsertKeys : \A i, j \in CommittedIds(t) :
            (\A f \in UpsertKeys[t] : db[t][i][f] = db[t][j][f]) => i = j

====
